---- MODULE Spec2Model ----
(***************************************************************************)
(* A model of spyce's in-place editing engine (src/src/spyce/spyce.py):    *)
(* the text and bytes codecs, the line parser, the SpycyFile document with *)
(* its set / delete bookkeeping, and the refactor scoped edit.             *)
(*                                                                         *)
(* A line of the host file is a sequence of lexical tokens (strings); the  *)
(* regular expressions of the parser are matched token by token.  Python   *)
(* list slicing (negative and out-of-range indices) is modelled as Python  *)
(* defines it, because the document's offsets can leave the buffer.        *)
(***************************************************************************)
EXTENDS Integers, Sequences, FiniteSets, TLC

VARIABLES
    MAX_LINE_LENGTH,   \* the module global of spyce.py
    lines,             \* SpycyFile.lines, the line buffer
    spyce_jars,        \* SpycyFile.spyce_jars, in dict insertion order
    section,           \* SpycyFile.section: section -> anchor (None or index)
    content_version,   \* SpycyFile.content_version
    status,            \* "parsing", "open", or the exception __init__ raised
    pc,                \* position of the refactor scoped edit
    saved_version,     \* refactor's local content_version
    call,              \* arguments of the current refactor call
    path,              \* SpycyFile.path: "Path", "str" or "None"
    disk,              \* the files of the file system
    fs_events,         \* the file system operations done by refactor, in order
    entry,             \* the buffer and the disk when the scoped edit was entered
    touched,           \* a set or delete was called in the current body
    edits,             \* the number of scoped edits entered so far
    opened,            \* lines and code lines of the buffer when it was opened
    last_set,          \* name -> the spyce last set under that name
    sample,            \* codec exploration: the content given to encode
    encoded,           \* codec exploration: the lines encode returned
    decoded,           \* codec exploration: what decode returned
    parse_pos,         \* _parse_lines: cur_index, the index of the next line
    parse_jar,         \* _parse_lines: spyce_jar, the jar that is open (or None)
    query              \* the last read of the document: [value, op, arg], or None

doc_vars == <<lines, spyce_jars, section, content_version, status, opened, last_set>>
edit_vars == <<pc, saved_version, call, path, disk, fs_events, entry, touched, edits>>
codec_vars == <<sample, encoded, decoded>>
parse_vars == <<parse_pos, parse_jar, query>>
vars == <<MAX_LINE_LENGTH, doc_vars, edit_vars, codec_vars, parse_vars>>

(***************************************************************************)
(* Bounds of the model.                                                    *)
(***************************************************************************)
MaxInitLen == 3      \* lines of the file that is opened
MaxVersion == 3      \* set / delete stop once content_version reached it
MaxBytesLen == 4     \* bytes of a payload given to BytesSpyce.encode
MaxTextLen == 3      \* characters of a payload given to TextSpyce.encode
MaxLineLength == 8   \* the largest small value given to set_max_line_length
MaxEditInitLen == 1  \* lines of the file that is opened for scoped edits
MaxEdits == 1        \* scoped edits of one document

\* MAX_LINE_LENGTH as the module sets it
DefaultMaxLineLength == 120

(***************************************************************************)
(* Python built-ins.                                                       *)
(***************************************************************************)
None == <<>>
Some(v) == <<v>>

Min(a, b) == IF a < b THEN a ELSE b
Max(a, b) == IF a > b THEN a ELSE b

\* a slice bound as list slicing normalises it
PyIndex(i, n) == IF i < 0 THEN Max(i + n, 0) ELSE Min(i, n)

\* seq[a:b]
PySlice(seq, a, b) ==
    LET lo == PyIndex(a, Len(seq))
        hi == PyIndex(b, Len(seq))
    IN  IF lo < hi THEN SubSeq(seq, lo + 1, hi) ELSE <<>>

\* del seq[a:b]
PyDelSlice(seq, a, b) ==
    LET lo == PyIndex(a, Len(seq))
        hi == PyIndex(b, Len(seq))
    IN  IF lo < hi THEN SubSeq(seq, 1, lo) \o SubSeq(seq, hi + 1, Len(seq)) ELSE seq

\* seq[a:a] = block
PyInsert(seq, a, block) ==
    LET lo == PyIndex(a, Len(seq))
    IN  SubSeq(seq, 1, lo) \o block \o SubSeq(seq, lo + 1, Len(seq))

RECURSIVE Concat(_)
\* ''.join(parts)
Concat(parts) == IF parts = <<>> THEN <<>> ELSE Head(parts) \o Concat(Tail(parts))

RECURSIVE SeqMax(_)
\* max(seq) of a non-empty list
SeqMax(seq) == IF Len(seq) = 1 THEN seq[1] ELSE Max(seq[1], SeqMax(Tail(seq)))

\* [x for x in seq if Keep(x)]
Filter(seq, Keep(_)) == SelectSeq(seq, Keep)

\* all sequences over S of length at most n
BoundedSeq(S, n) == UNION {[1..k -> S] : k \in 0..n}

NL == "\n"
Whitespace == {" ", NL, "\t"}

\* str.strip() of a token sequence
RECURSIVE LStrip(_)
LStrip(s) == IF s # <<>> /\ Head(s) \in Whitespace THEN LStrip(Tail(s)) ELSE s
RECURSIVE RStrip(_)
RStrip(s) == IF s # <<>> /\ s[Len(s)] \in Whitespace THEN RStrip(SubSeq(s, 1, Len(s) - 1)) ELSE s
Strip(s) == RStrip(LStrip(s))

\* str.startswith(prefix)
StartsWith(s, prefix) == Len(s) >= Len(prefix) /\ SubSeq(s, 1, Len(prefix)) = prefix

(***************************************************************************)
(* base64.b85encode / base64.b85decode.  A 32 bit word does not fit the    *)
(* model checker's integers, so the words are divided digit by digit.      *)
(* The grave accent cannot be written in a string of this language: the    *)
(* token "BACKTICK" stands for that one character.                         *)
(***************************************************************************)
B85Alphabet == <<
    "0", "1", "2", "3", "4", "5", "6", "7", "8", "9",
    "A", "B", "C", "D", "E", "F", "G", "H", "I", "J", "K", "L", "M",
    "N", "O", "P", "Q", "R", "S", "T", "U", "V", "W", "X", "Y", "Z",
    "a", "b", "c", "d", "e", "f", "g", "h", "i", "j", "k", "l", "m",
    "n", "o", "p", "q", "r", "s", "t", "u", "v", "w", "x", "y", "z",
    "!", "#", "$", "%", "&", "(", ")", "*", "+", "-", ";", "<", "=",
    ">", "?", "@", "^", "_", "BACKTICK", "{", "|", "}", "~" >>

IsB85(c) == \E i \in 1..Len(B85Alphabet) : B85Alphabet[i] = c
B85Index(c) == (CHOOSE i \in 1..Len(B85Alphabet) : B85Alphabet[i] = c) - 1

RECURSIVE LongDiv(_, _, _, _)
\* the number with digits ds (most significant first) in base `base`, divided
\* by d, carrying the remainder r in: <<quotient digits, remainder>>
LongDiv(ds, base, d, r) ==
    IF ds = <<>> THEN <<(<<>>), r>>
    ELSE LET cur == r * base + Head(ds)
             rest == LongDiv(Tail(ds), base, d, cur % d)
         IN  <<(<<cur \div d>>) \o rest[1], rest[2]>>

RECURSIVE ToDigits(_, _, _, _)
\* the n least significant digits, in base `to`, of the number ds in base `from`:
\* <<digits (most significant first), what is left of the number>>
ToDigits(ds, from, to, n) ==
    IF n = 0 THEN <<(<<>>), ds>>
    ELSE LET qr == LongDiv(ds, from, to, 0)
             rest == ToDigits(qr[1], from, to, n - 1)
         IN  <<Append(rest[1], qr[2]), rest[2]>>

IsZero(ds) == \A i \in 1..Len(ds) : ds[i] = 0

Repeat(x, n) == [i \in 1..n |-> x]

\* one 4 byte word as 5 characters
B85EncodeWord(word) ==
    LET digits == ToDigits(word, 256, 85, 5)[1]
    IN  [i \in 1..5 |-> B85Alphabet[digits[i] + 1]]

RECURSIVE B85EncodeWords(_)
B85EncodeWords(b) ==
    IF b = <<>> THEN <<>>
    ELSE B85EncodeWord(SubSeq(b, 1, 4)) \o B85EncodeWords(SubSeq(b, 5, Len(b)))

\* base64.b85encode(b): the characters of the encoding
B85Encode(b) ==
    LET padding == (4 - (Len(b) % 4)) % 4
        chars == B85EncodeWords(b \o Repeat(0, padding))
    IN  SubSeq(chars, 1, Len(chars) - padding)

RECURSIVE B85DecodeChunks(_)
\* [ok, val]: the bytes of the 5 character chunks, or not ok on overflow
B85DecodeChunks(cs) ==
    IF cs = <<>> THEN [ok |-> TRUE, val |-> <<>>]
    ELSE LET chunk == [i \in 1..5 |-> B85Index(cs[i])]
             word == ToDigits(chunk, 85, 256, 4)
             rest == B85DecodeChunks(SubSeq(cs, 6, Len(cs)))
         IN  IF IsZero(word[2]) /\ rest.ok
             THEN [ok |-> TRUE, val |-> word[1] \o rest.val]
             ELSE [ok |-> FALSE, val |-> <<>>]

\* base64.b85decode(data): [ok, val], not ok when it raises ValueError
B85Decode(data) ==
    IF \E i \in 1..Len(data) : ~IsB85(data[i]) THEN [ok |-> FALSE, val |-> <<>>]
    ELSE LET padding == (5 - (Len(data) % 5)) % 5
             res == B85DecodeChunks(data \o Repeat("~", padding))
         IN  IF res.ok
             THEN [ok |-> TRUE, val |-> SubSeq(res.val, 1, Len(res.val) - padding)]
             ELSE res

(***************************************************************************)
(* The codecs.  A spyce is [cls, section, name, text, bytes, conf]: cls is *)
(* the Spyce subclass ("text" or "bytes"), text / bytes its content (the   *)
(* one its class does not use is empty), conf a list of <<key, value>>.    *)
(***************************************************************************)
RECURSIVE Split(_, _)
\* str.split(sep): the pieces between the separators, at least one piece
Split(s, sep) ==
    IF \A i \in 1..Len(s) : s[i] # sep THEN <<s>>
    ELSE LET k == CHOOSE i \in 1..Len(s) : s[i] = sep /\ \A j \in 1..(i - 1) : s[j] # sep
         IN  <<SubSeq(s, 1, k - 1)>> \o Split(SubSeq(s, k + 1, Len(s)), sep)

\* TextSpyce.encode
TextSpyce_encode(content) ==
    LET pieces == Split(content, NL)
    IN  [i \in 1..Len(pieces) |-> Append(pieces[i], NL)]

\* TextSpyce.decode
TextSpyce_decode(ls) == [ok |-> TRUE, val |-> Concat(ls)]

\* BytesSpyce.__data_prefix__, '#|' character by character
data_prefix == <<"#", "|">>

\* get_max_line_length
get_max_line_length == MAX_LINE_LENGTH

\* the width of the data of one line
ChunkLen == Max(get_max_line_length - Len(data_prefix), Len(data_prefix) + 1)

RECURSIVE Chunks(_, _)
\* [data[index:index+dlen] for index in range(0, len(data), dlen)]
Chunks(data, dlen) ==
    IF data = <<>> THEN <<>>
    ELSE <<SubSeq(data, 1, Min(dlen, Len(data)))>> \o Chunks(SubSeq(data, dlen + 1, Len(data)), dlen)

\* BytesSpyce.encode
BytesSpyce_encode(content) ==
    LET data == B85Encode(content)
        chunks == Chunks(data, ChunkLen)
    IN  [i \in 1..Len(chunks) |-> data_prefix \o chunks[i] \o <<NL>>]

\* a decode that leaves the '#|' of every line in the data
BytesSpyce_decode_keeps_prefix(ls) ==
    LET HasPrefix(line) == StartsWith(line, data_prefix)
        kept == Filter(ls, HasPrefix)
    IN  B85Decode(Concat([i \in 1..Len(kept) |-> Strip(kept[i])]))

\* BytesSpyce.decode
BytesSpyce_decode(ls) ==
    LET HasPrefix(line) == StartsWith(line, data_prefix)
        kept == Filter(ls, HasPrefix)
        data == Concat([i \in 1..Len(kept) |->
                            Strip(SubSeq(kept[i], Len(data_prefix) + 1, Len(kept[i])))])
    IN  B85Decode(data)

\* Spyce.encode of the spyce's own content, by its class
Encode(spyce) ==
    IF spyce.cls = "text" THEN TextSpyce_encode(spyce.text) ELSE BytesSpyce_encode(spyce.bytes)

\* Spyce.decode, by class
Decode(cls, ls) ==
    IF cls = "text" THEN TextSpyce_decode(ls) ELSE BytesSpyce_decode(ls)

(***************************************************************************)
(* The lines of a host file, token by token.                               *)
(***************************************************************************)
Sections == {"source", "data"}            \* SpycyFile.__sections__
Registry == {"text", "bytes"}             \* Spyce.__registry__

\* default_spyce_type
default_spyce_type(sec, name) == IF sec = "source" THEN "text" ELSE "bytes"

\* Spyce.build_fq_name, as the tokens of f'{section}/{name}:{spyce_type}'
build_fq_name(sec, name, spyce_type) == <<sec, "/", name, ":", spyce_type>>

\* json.dumps / json.loads of a configuration value (a string)
json_dumps(value) == "\"" \o value \o "\""
JsonValues == {"api"}
json_loads(tokens) ==
    IF Len(tokens) = 1 /\ \E v \in JsonValues : json_dumps(v) = tokens[1]
    THEN Some(CHOOSE v \in JsonValues : json_dumps(v) = tokens[1])
    ELSE None

StartLine(fq_name) == <<"# spyce:", " ", "start", " ">> \o fq_name \o <<NL>>
EndLine(fq_name) == <<"# spyce:", " ", "end", " ">> \o fq_name \o <<NL>>
ConfLine(key, value) == <<"# spyce:", " ", "conf:", " ", key, "=", json_dumps(value), NL>>
SectionLine(sec) == <<"# spyce:", " ", "section", " ", sec, NL>>
ShebangLine == <<"#", "!", "/bin/sh", NL>>
CodeLine == <<"pass", NL>>

\* what follows '# spyce:\s+' in a line, or None
Directive(line) ==
    IF Len(line) >= 2 /\ line[1] = "# spyce:" /\ line[2] \in Whitespace
    THEN Some(LStrip(Tail(line)))
    ELSE None

\* one or more characters of [^\s\/\:], read as one token
IsNameToken(t) == t \notin Whitespace \cup {"/", ":", "# spyce:", "conf:"}
\* \w+, read as one token
IsWordToken(t) == IsNameToken(t) /\ t \notin {"=", "#", "!", "|"}

\* SpycyFile.__re_section__: the section of a section marker, or None
m_section(line) ==
    LET d == Directive(line)
    IN  IF d = None \/ Len(d[1]) < 3 THEN None
        ELSE LET r == d[1]
             IN  IF r[1] = "section" /\ r[2] \in Whitespace
                 THEN LET r2 == LStrip(Tail(r))
                      IN  IF r2 # <<>> /\ Head(r2) \in Sections THEN Some(Head(r2)) ELSE None
                 ELSE None

\* SpycyFile.__re_spyce__: [action, section, name, type] of a start or end
\* marker (type None without the ':type' suffix), or None
m_spyce(line) ==
    LET d == Directive(line)
    IN  IF d = None \/ Len(d[1]) < 3 THEN None
        ELSE LET r == d[1]
             IN  IF r[1] \in {"start", "end"} /\ r[2] \in Whitespace
                 THEN LET r2 == LStrip(Tail(r))
                      IN  IF /\ Len(r2) >= 3
                             /\ r2[1] \in Sections
                             /\ r2[2] = "/"
                             /\ IsNameToken(r2[3])
                          THEN Some([action |-> r[1], section |-> r2[1], name |-> r2[3],
                                     type |-> IF /\ Len(r2) >= 5
                                                 /\ r2[4] = ":"
                                                 /\ r2[5] \notin Whitespace
                                              THEN Some(r2[5]) ELSE None])
                          ELSE None
                 ELSE None

\* SpycyFile.__re_conf__: [key, value] of a configuration line, or None
m_conf(line) ==
    LET d == Directive(line)
    IN  IF d = None \/ Len(d[1]) < 3 THEN None
        ELSE LET r == d[1]
             IN  IF r[1] = "conf:" /\ r[2] \in Whitespace
                 THEN LET r2 == LStrip(Tail(r))
                      IN  IF Len(r2) >= 2 /\ IsWordToken(r2[1]) /\ LStrip(Tail(r2)) # <<>>
                             /\ Head(LStrip(Tail(r2))) = "="
                          THEN Some([key |-> r2[1],
                                     value |-> Strip(Tail(LStrip(Tail(r2))))])
                          ELSE None
                 ELSE None

(***************************************************************************)
(* SpyceJar and the parser.  A jar is [section, name, spyce_type, start,   *)
(* end, conf, num_params]; spyce_jars is the list of the jars in the       *)
(* insertion order of the dict.                                            *)
(***************************************************************************)
\* dict[key] = value on a list of <<key, value>> in insertion order
DictSet(d, key, value) ==
    IF \E i \in 1..Len(d) : d[i][1] = key
    THEN [i \in 1..Len(d) |-> IF d[i][1] = key THEN <<key, value>> ELSE d[i]]
    ELSE Append(d, <<key, value>>)

\* the names (keys) of a list of jars
JarNames(jars) == {jars[i].name : i \in 1..Len(jars)}

\* spyce_jars[name]
JarOf(jars, name) == jars[CHOOSE i \in 1..Len(jars) : jars[i].name = name]

\* SpyceJar.__init__: Some(jar), or None when the spyce type is unknown
SpyceJar(sec, name, spyce_type, start, end) ==
    LET type == IF spyce_type = None THEN default_spyce_type(sec, name) ELSE spyce_type[1]
    IN  IF type \notin Registry THEN None
        ELSE Some([section |-> sec, name |-> name, spyce_type |-> type,
                   start |-> start, end |-> end, conf |-> <<>>, num_params |-> 0])

\* SpyceJar.merge_conf: Some(jar), or None when it raises
merge_conf(jar, line_index, key, value) ==
    IF line_index # jar.start + jar.num_params + 1 THEN None
    ELSE Some([jar EXCEPT !.conf = DictSet(jar.conf, key, value),
                          !.num_params = jar.num_params + 1])

\* a _store_spyce_jar that ends an unclosed jar right after its start marker,
\* whatever configuration lines follow it
store_spyce_jar_without_conf(st, line_index) ==
    IF st.spyce_jar = None THEN st
    ELSE LET jar == st.spyce_jar[1]
             last == IF line_index = None THEN jar.start ELSE line_index[1]
         IN  [st EXCEPT !.spyce_jars = Append(st.spyce_jars, [jar EXCEPT !.end = last + 1]),
                        !.spyce_jar = None]

\* _parse_lines._store_spyce_jar on the parser state st; line_index may be None
store_spyce_jar(st, line_index) ==
    IF st.spyce_jar = None THEN st
    ELSE LET jar == st.spyce_jar[1]
             last == IF line_index = None THEN jar.start + jar.num_params ELSE line_index[1]
         IN  [st EXCEPT !.spyce_jars = Append(st.spyce_jars, [jar EXCEPT !.end = last + 1]),
                        !.spyce_jar = None]

Raise(st, kind) == [st EXCEPT !.error = Some(kind)]

\* an end branch that closes the open jar whatever the marker names
parse_end_any_name(st, cur_index, m) ==
    IF st.spyce_jar # None
    THEN store_spyce_jar(st, Some(cur_index))
    ELSE Raise(st, "SpyceError")

\* the loop of _parse_lines on an end marker m
parse_end(st, cur_index, m) ==
    IF /\ st.spyce_jar # None
       /\ m.section = st.spyce_jar[1].section
       /\ m.name = st.spyce_jar[1].name
    THEN store_spyce_jar(st, Some(cur_index))
    ELSE Raise(st, "SpyceError")

\* a start branch that looks for a duplicate before it stores the open jar
parse_start_checks_first(st, cur_index, m) ==
    LET jar == SpyceJar(m.section, m.name, m.type, cur_index, None)
    IN  IF jar = None THEN Raise(st, "SpyceError")
        ELSE IF jar[1].name \in JarNames(st.spyce_jars)
        THEN Raise(st, "SpyceError")
        ELSE [store_spyce_jar(st, None) EXCEPT !.spyce_jar = jar]

\* a start branch that ends the open jar on the line before the new marker
parse_start_closes_at_marker(st, cur_index, m) ==
    LET st1 == store_spyce_jar(st, Some(cur_index - 1))
        jar == SpyceJar(m.section, m.name, m.type, cur_index, None)
    IN  IF jar = None THEN Raise(st1, "SpyceError")
        ELSE IF jar[1].name \in JarNames(st1.spyce_jars)
        THEN Raise(st1, "SpyceError")
        ELSE [st1 EXCEPT !.spyce_jar = jar]

\* the loop of _parse_lines on a start marker m
parse_start(st, cur_index, m) ==
    LET st1 == store_spyce_jar(st, None)
        jar == SpyceJar(m.section, m.name, m.type, cur_index, None)
    IN  IF jar = None THEN Raise(st1, "SpyceError")
        ELSE IF jar[1].name \in JarNames(st1.spyce_jars)
        THEN Raise(st1, "SpyceError")
        ELSE [st1 EXCEPT !.spyce_jar = jar]

\* the loop of _parse_lines on a configuration line m: with no jar open the
\* raise statement reads the local err, which is not bound yet
parse_conf(st, cur_index, m) ==
    IF st.spyce_jar = None THEN Raise(st, "UnboundLocalError")
    ELSE IF json_loads(m.value) = None THEN Raise(st, "SpyceError")
    ELSE LET jar == merge_conf(st.spyce_jar[1], cur_index, m.key, json_loads(m.value)[1])
         IN  IF jar = None THEN Raise(st, "SpyceError")
             ELSE [st EXCEPT !.spyce_jar = jar]

\* the body of the loop of _parse_lines for one line
parse_line(st, cur_index, line) ==
    IF m_section(line) # None
    THEN [st EXCEPT !.section[m_section(line)[1]] = Some(cur_index)]
    ELSE IF m_spyce(line) # None
    THEN (IF m_spyce(line)[1].action = "end"
          THEN parse_end(st, cur_index, m_spyce(line)[1])
          ELSE parse_start(st, cur_index, m_spyce(line)[1]))
    ELSE IF m_conf(line) # None
    THEN parse_conf(st, cur_index, m_conf(line)[1])
    ELSE st

RECURSIVE parse_from(_, _, _)
\* the loop of _parse_lines from line cur_index on, which stops where it raises
parse_from(st, cur_index, ls) ==
    IF st.error # None \/ cur_index >= Len(ls) THEN st
    ELSE parse_from(parse_line(st, cur_index, ls[cur_index + 1]), cur_index + 1, ls)

\* SpycyFile._parse_lines: [spyce_jars, section, spyce_jar, error]
parse_lines(ls) ==
    LET st0 == [spyce_jars |-> <<>>, section |-> [sec \in Sections |-> None],
                spyce_jar |-> None, error |-> None]
        st == parse_from(st0, 0, ls)
    IN  IF st.error # None THEN st ELSE store_spyce_jar(st, None)

(***************************************************************************)
(* SpycyFile: a document is [lines, spyce_jars, section, content_version]. *)
(***************************************************************************)
\* SpycyFile._update_lines
update_lines(d, l_start, l_diff) ==
    [d EXCEPT
        !.spyce_jars = [i \in 1..Len(d.spyce_jars) |->
            LET jar == d.spyce_jars[i]
            IN  IF jar.start >= l_start
                THEN [jar EXCEPT !.start = jar.start + l_diff, !.end = jar.end + l_diff]
                ELSE jar],
        !.section = [sec \in Sections |->
            IF d.section[sec] # None /\ d.section[sec][1] > l_start
            THEN Some(d.section[sec][1] + l_diff)
            ELSE d.section[sec]]]

\* a delete that does not bump content_version
delitem_without_bump(d, name) ==
    LET spyce_jar == JarOf(d.spyce_jars, name)
        NotIt(jar) == jar.name # name
        popped == [d EXCEPT !.spyce_jars = Filter(d.spyce_jars, NotIt),
                            !.lines = PyDelSlice(d.lines, spyce_jar.start, spyce_jar.end)]
    IN  update_lines(popped, spyce_jar.start, -(spyce_jar.end - spyce_jar.start))

\* SpycyFile.__delitem__ for a name that is a key (KeyError otherwise)
delitem(d, name) ==
    LET spyce_jar == JarOf(d.spyce_jars, name)
        NotIt(jar) == jar.name # name
        popped == [d EXCEPT !.spyce_jars = Filter(d.spyce_jars, NotIt),
                            !.lines = PyDelSlice(d.lines, spyce_jar.start, spyce_jar.end)]
        shifted == update_lines(popped, spyce_jar.start, -(spyce_jar.end - spyce_jar.start))
    IN  [shifted EXCEPT !.content_version = shifted.content_version + 1]

\* the default start of the source section: the index of the first line that
\* does not start with '#!', and of the last line when every line does
source_start(ls) ==
    IF \E i \in 1..Len(ls) : ~StartsWith(ls[i], <<"#", "!">>)
    THEN (CHOOSE i \in 1..Len(ls) :
              /\ ~StartsWith(ls[i], <<"#", "!">>)
              /\ \A j \in 1..(i - 1) : StartsWith(ls[j], <<"#", "!">>)) - 1
    ELSE Len(ls) - 1

\* the insertion point of a name that is not a key: Some(start), or None
\* when the loop over an empty buffer leaves l_index unbound
new_start(d, sec) ==
    LET InSection(jar) == jar.section = sec
        mine == Filter(d.spyce_jars, InSection)
        spc_ends == [i \in 1..Len(mine) |-> mine[i].end]
    IN  IF spc_ends # <<>> THEN Some(SeqMax(spc_ends))
        ELSE IF d.section[sec] # None /\ d.section[sec][1] # 0
        THEN Some(d.section[sec][1] + 1)
        ELSE IF sec = "source"
        THEN (IF d.lines = <<>> THEN None ELSE Some(source_start(d.lines)))
        ELSE Some(Len(d.lines))

\* the block of a spyce: start marker, configuration lines, payload, end marker
spyce_lines(spyce) ==
    LET fq_name == build_fq_name(spyce.section, spyce.name, spyce.cls)
    IN  <<StartLine(fq_name)>>
        \o [i \in 1..Len(spyce.conf) |-> ConfLine(spyce.conf[i][1], spyce.conf[i][2])]
        \o Encode(spyce)
        \o <<EndLine(fq_name)>>

\* SpycyFile.__setitem__ of a Spyce: [raised, doc], doc being the document it
\* leaves behind (also when it raises)
setitem(d, spyce) ==
    LET bumped == [d EXCEPT !.content_version = d.content_version + 1]
        replace == spyce.name \in JarNames(d.spyce_jars)
        d1 == IF replace THEN delitem(bumped, spyce.name) ELSE bumped
        start == IF replace THEN Some(JarOf(d.spyce_jars, spyce.name).start)
                 ELSE new_start(d1, spyce.section)
    IN  IF start = None THEN [raised |-> TRUE, doc |-> d1]
        ELSE LET block == spyce_lines(spyce)
                 spliced == [d1 EXCEPT !.lines = PyInsert(d1.lines, start[1], block)]
                 shifted == update_lines(spliced, start[1], Len(block))
                 spyce_jar == SpyceJar(spyce.section, spyce.name, Some(spyce.cls),
                                       start[1], start[1] + Len(block))[1]
             IN  [raised |-> FALSE,
                  doc |-> [shifted EXCEPT !.spyce_jars = Append(shifted.spyce_jars, spyce_jar)]]

\* SpycyFile.code_lines: the lines outside every jar's range, in order
code_lines(d) ==
    LET spyced_indices == UNION {d.spyce_jars[i].start .. (d.spyce_jars[i].end - 1) :
                                     i \in 1..Len(d.spyce_jars)}
        outside == {i \in 0..(Len(d.lines) - 1) : i \notin spyced_indices}
        RECURSIVE Take(_)
        Take(i) == IF i >= Len(d.lines) THEN <<>>
                   ELSE (IF i \in outside THEN <<d.lines[i + 1]>> ELSE <<>>) \o Take(i + 1)
    IN  Take(0)

\* SpyceJar.get_lines
get_lines(d, jar, headers) ==
    LET s_offset == IF headers THEN 0 ELSE jar.num_params + 1
        e_offset == IF headers THEN 0 ELSE 1
    IN  PySlice(d.lines, jar.start + s_offset, jar.end - e_offset)

\* document[name].get_content(), on its first access: [ok, val]
get_content(d, name) ==
    LET jar == JarOf(d.spyce_jars, name)
    IN  Decode(jar.spyce_type, get_lines(d, jar, FALSE))

(***************************************************************************)
(* The inputs of the model.                                                *)
(***************************************************************************)
Names == {"a", "b"}

TextSpyce(sec, name, content, conf) ==
    [section |-> sec, cls |-> "text", text |-> content, bytes |-> <<>>, name |-> name,
     conf |-> conf]
BytesSpyce(sec, name, content, conf) ==
    [section |-> sec, cls |-> "bytes", text |-> <<>>, bytes |-> content, name |-> name,
     conf |-> conf]

\* the spyces given to set: two contents of different size for one name
Spyces == {
    TextSpyce("source", "a", <<"x">>, <<>>),
    TextSpyce("source", "a", <<"y", NL>>, <<(<<"flavor", "api">>)>>),
    BytesSpyce("data", "b", <<1>>, <<>>) }

\* the lines a file that is opened is made of
InitAlphabet == {
    ShebangLine, CodeLine, SectionLine("source"), SectionLine("data"),
    StartLine(build_fq_name("source", "a", "text")),
    EndLine(build_fq_name("source", "a", "text")) }

InitFiles == BoundedSeq(InitAlphabet, MaxInitLen)

(***************************************************************************)
(* The document as a state machine.                                        *)
(***************************************************************************)
Doc == [lines |-> lines, spyce_jars |-> spyce_jars, section |-> section,
        content_version |-> content_version]

File(content) == [content |-> content, exists |-> TRUE]
NoFile == [content |-> <<>>, exists |-> FALSE]
NoCall == [output_path |-> "None", backup |-> FALSE]

CodecIdle == sample = None /\ encoded = <<>> /\ decoded = None

\* SpycyFile.__init__ on a file that holds the lines ls
Open(ls) ==
    LET st == parse_lines(ls)
        ok == st.error = None
    IN  /\ lines = ls
        /\ status = (IF ok THEN "open" ELSE st.error[1])
        /\ spyce_jars = (IF ok THEN st.spyce_jars ELSE <<>>)
        /\ section = (IF ok THEN st.section ELSE [sec \in Sections |-> None])
        /\ content_version = 0
        /\ opened = [lines |-> ls,
                     code_lines |-> IF ok
                                    THEN code_lines([lines |-> ls, spyce_jars |-> st.spyce_jars])
                                    ELSE <<>>]
        /\ last_set = [n \in Names |-> None]
        /\ disk = [own |-> File(ls), other |-> NoFile]
        /\ parse_pos = Len(ls) /\ parse_jar = None /\ query = None

Init ==
    /\ MAX_LINE_LENGTH = DefaultMaxLineLength
    /\ \E ls \in InitFiles : Open(ls)
    /\ path = "Path"
    /\ pc = "idle" /\ saved_version = 0 /\ call = NoCall /\ fs_events = <<>>
    /\ entry = [lines |-> <<>>, disk |-> disk] /\ touched = FALSE /\ edits = 0
    /\ CodecIdle

\* document[spyce.name] = spyce
Set(spyce) ==
    /\ status = "open"
    /\ content_version < MaxVersion
    /\ LET r == setitem(Doc, spyce)
       IN  /\ lines' = r.doc.lines
           /\ spyce_jars' = r.doc.spyce_jars
           /\ section' = r.doc.section
           /\ content_version' = r.doc.content_version
           /\ last_set' = IF r.raised THEN last_set
                          ELSE [last_set EXCEPT ![spyce.name] = Some(spyce)]
    /\ touched' = (touched \/ pc = "body")
    /\ UNCHANGED <<MAX_LINE_LENGTH, status, opened, pc, saved_version, call, path, disk,
                   fs_events, entry, edits, codec_vars, parse_vars>>

\* del document[name]
Delete(name) ==
    /\ status = "open"
    /\ content_version < MaxVersion
    /\ name \in JarNames(spyce_jars)
    /\ LET d == delitem(Doc, name)
       IN  /\ lines' = d.lines
           /\ spyce_jars' = d.spyce_jars
           /\ section' = d.section
           /\ content_version' = d.content_version
    /\ last_set' = [last_set EXCEPT ![name] = None]
    /\ touched' = (touched \/ pc = "body")
    /\ UNCHANGED <<MAX_LINE_LENGTH, status, opened, pc, saved_version, call, path, disk,
                   fs_events, entry, edits, codec_vars, parse_vars>>

Next ==
    \/ \E spyce \in Spyces : Set(spyce)
    \/ \E name \in Names : Delete(name)

Spec == Init /\ [][Next]_vars

(***************************************************************************)
(* Properties of the document.                                             *)
(***************************************************************************)
JarIndices(jars) == 1..Len(jars)

\* C1: after parsing and after any successful set and delete, every stored
\* region satisfies 0 <= start < end <= len(lines), and the ranges of two
\* distinct regions are disjoint.
C1_RegionsValidAndDisjoint ==
    status = "open" =>
        /\ \A i \in JarIndices(spyce_jars) :
               /\ 0 <= spyce_jars[i].start
               /\ spyce_jars[i].start < spyce_jars[i].end
               /\ spyce_jars[i].end <= Len(lines)
        /\ \A i, j \in JarIndices(spyce_jars) :
               i # j => \/ spyce_jars[i].end <= spyce_jars[j].start
                        \/ spyce_jars[j].end <= spyce_jars[i].start

\* the content of a spyce, as decode returns it
ContentOf(spyce) ==
    [ok |-> TRUE, val |-> IF spyce.cls = "text" THEN spyce.text ELSE spyce.bytes]

\* C2: after any set and delete, the lines of every remaining region, without
\* its markers and configuration lines, decode to the content last set for it.
C2_ContentIsLastSet ==
    status = "open" =>
        \A name \in JarNames(spyce_jars) :
            last_set[name] # None => get_content(Doc, name) = ContentOf(last_set[name][1])

\* C3: after any set and delete, the lines outside every region are, in order,
\* the lines that were outside every region when the document was opened.
C3_CodeLinesPreserved ==
    status = "open" => code_lines(Doc) = opened.code_lines

\* C4: for a name that is absent, set followed by delete leaves the line
\* buffer and the start and end of every other region as they were.
C4_SetThenDeleteRestores ==
    status = "open" =>
        \A spyce \in Spyces :
            (spyce.name \notin JarNames(spyce_jars) /\ ~setitem(Doc, spyce).raised) =>
                LET after == delitem(setitem(Doc, spyce).doc, spyce.name)
                IN  /\ after.lines = lines
                    /\ after.spyce_jars = spyce_jars

\* C5: setting a name that exists puts the new block at the start line of the
\* old one; the regions before it stay before it, the regions after it stay
\* after it, and the other regions keep their relative order.
C5_ReplaceKeepsPosition ==
    status = "open" =>
        \A spyce \in Spyces :
            spyce.name \in JarNames(spyce_jars) =>
                LET old == spyce_jars
                    new == setitem(Doc, spyce).doc.spyce_jars
                    it == spyce.name
                    others == JarNames(old) \ {it}
                    Before(jars, n, m) == JarOf(jars, n).start < JarOf(jars, m).start
                IN  /\ JarOf(new, it).start = JarOf(old, it).start
                    /\ \A n \in others :
                           /\ Before(old, n, it) => Before(new, n, it)
                           /\ Before(old, it, n) => Before(new, it, n)
                    /\ \A n, m \in others : Before(old, n, m) <=> Before(new, n, m)

(***************************************************************************)
(* The codecs as a state machine: the max line length is set, then one     *)
(* content is encoded and its lines are decoded.                           *)
(***************************************************************************)
ByteValues == {0, 1, 133, 255}
TextChars == {"x", "#", NL}
LineLengths == (-1 .. MaxLineLength) \cup {DefaultMaxLineLength}

BytesContents == BoundedSeq(ByteValues, MaxBytesLen)
TextContents == BoundedSeq(TextChars, MaxTextLen)

InitCodec ==
    /\ MAX_LINE_LENGTH = DefaultMaxLineLength
    /\ Open(<<>>)
    /\ path = "Path"
    /\ pc = "idle" /\ saved_version = 0 /\ call = NoCall /\ fs_events = <<>>
    /\ entry = [lines |-> <<>>, disk |-> disk] /\ touched = FALSE /\ edits = 0
    /\ CodecIdle

\* set_max_line_length(value)
set_max_line_length(value) ==
    /\ sample = None
    /\ MAX_LINE_LENGTH' = value
    /\ sample' = None /\ encoded' = <<>> /\ decoded' = None
    /\ UNCHANGED <<doc_vars, edit_vars, parse_vars>>

\* lines = spyce.encode(content)
EncodeContent(spyce) ==
    /\ sample = None
    /\ sample' = Some(spyce)
    /\ encoded' = Encode(spyce)
    /\ decoded' = None
    /\ UNCHANGED <<MAX_LINE_LENGTH, doc_vars, edit_vars, parse_vars>>

\* content = spyce.decode(lines)
DecodeLines ==
    /\ sample # None
    /\ decoded = None
    /\ decoded' = Some(Decode(sample[1].cls, encoded))
    /\ UNCHANGED <<MAX_LINE_LENGTH, doc_vars, edit_vars, parse_vars, sample, encoded>>

NextCodec ==
    \/ \E value \in LineLengths : set_max_line_length(value)
    \/ \E content \in BytesContents : EncodeContent(BytesSpyce("data", "b", content, <<>>))
    \/ \E content \in TextContents : EncodeContent(TextSpyce("source", "a", content, <<>>))
    \/ DecodeLines

SpecCodec == InitCodec /\ [][NextCodec]_vars

\* C6: for every byte string, the empty one and the ones wrapped over several
\* lines included, and every max line length, BytesSpyce.decode returns the
\* bytes that BytesSpyce.encode was given.
C6_BytesRoundTrip ==
    (decoded # None /\ sample[1].cls = "bytes") =>
        decoded[1] = [ok |-> TRUE, val |-> sample[1].bytes]

\* a payload wrapped over several lines, under a max line length that was set,
\* has been encoded and decoded
C6_Witness ==
    /\ decoded # None
    /\ sample[1].cls = "bytes"
    /\ Len(encoded) >= 2
    /\ Len(sample[1].bytes) = MaxBytesLen
    /\ MAX_LINE_LENGTH # DefaultMaxLineLength

\* C7: for every text, TextSpyce.decode returns the text that TextSpyce.encode
\* was given.
C7_TextRoundTrip ==
    (decoded # None /\ sample[1].cls = "text") =>
        decoded[1] = [ok |-> TRUE, val |-> sample[1].text]

(***************************************************************************)
(* SpycyFile.refactor, the scoped edit.  The context manager runs up to    *)
(* its yield when the edit is entered and from its yield on when the body  *)
(* ends; an exception of the body is thrown into the generator at the      *)
(* yield, which does not catch it.  A call is [output_path, backup] with   *)
(* output_path "None", "own" (a path that names the document's own file)   *)
(* or "other".                                                             *)
(***************************************************************************)
OutputPaths == {"None", "own", "other"}
Calls == [output_path : OutputPaths, backup : BOOLEAN]

\* a refactor that writes to the own path whatever the version is
refactor_output_path_always(c, saved, version) ==
    IF c.output_path = "None" THEN "self.path" ELSE c.output_path

\* a refactor that writes only when the version changed, also to an explicit
\* output_path
refactor_output_path_if_changed(c, saved, version) ==
    IF saved = version THEN "None"
    ELSE IF c.output_path = "None" THEN "self.path" ELSE c.output_path

\* output_path after the first if of the exit code: "self.path" is the very
\* object self.path, "own" another Path object that names the same file
refactor_output_path(c, saved, version) ==
    IF c.output_path = "None"
    THEN (IF saved # version THEN "self.path" ELSE "None")
    ELSE c.output_path

\* the file an output path names
TargetOf(output_path) == IF output_path = "other" THEN "other" ELSE "own"

\* the code of refactor after its yield, for a document whose path is p:
\* [error, disk, fs_events]
refactor_after_yield(ls, c, saved, version, p, dsk) ==
    LET output_path == refactor_output_path(c, saved, version)
        in_block == output_path = "self.path" \/ ~dsk.own.exists
        backup == IF in_block THEN FALSE ELSE c.backup
        do_backup == in_block /\ backup /\ dsk.own.exists
        backed_up == IF do_backup THEN <<(<<"copy", "backup">>)>> ELSE <<>>
        target == TargetOf(output_path)
        written == [dsk EXCEPT ![target] = File(ls)]
    IN  IF p = "str" THEN [error |-> TRUE, disk |-> dsk, fs_events |-> <<>>]
        ELSE IF output_path = "None"
        THEN [error |-> FALSE, disk |-> dsk, fs_events |-> backed_up]
        ELSE [error |-> FALSE, disk |-> written,
              fs_events |-> backed_up \o <<(<<"write", target>>)>>
                            \o (IF written.own.exists
                                THEN <<(<<"copymode", target>>)>> ELSE <<>>)]

\* the code of refactor after its yield when the final write raises OSError:
\* in open(output_path, 'w') (failed_at = None, the file is not touched) or
\* after failed_at[1] lines have reached the file that open has truncated
refactor_write_fails(ls, c, saved, version, p, dsk, failed_at) ==
    LET output_path == refactor_output_path(c, saved, version)
        target == TargetOf(output_path)
        partial == IF failed_at = None THEN dsk
                   ELSE [dsk EXCEPT ![target] = File(SubSeq(ls, 1, failed_at[1]))]
    IN  [error |-> TRUE, disk |-> partial, fs_events |-> <<(<<"write_failed", target>>)>>]

\* a scoped edit that runs its exit code in a finally clause
refactor_finally(ls, c, saved, version, p, dsk) ==
    refactor_after_yield(ls, c, saved, version, p, dsk)

\* what the generator does with an exception of the body: nothing
refactor_on_raise(ls, c, saved, version, p, dsk) ==
    [error |-> TRUE, disk |-> dsk, fs_events |-> <<>>]

EditFiles == BoundedSeq(InitAlphabet, MaxEditInitLen)

InitRefactor ==
    /\ MAX_LINE_LENGTH = DefaultMaxLineLength
    /\ \E ls \in EditFiles : Open(ls)
    /\ path \in {"Path", "str", "None"}
    /\ pc = "idle" /\ saved_version = 0 /\ call = NoCall /\ fs_events = <<>>
    /\ entry = [lines |-> <<>>, disk |-> disk] /\ touched = FALSE /\ edits = 0
    /\ CodecIdle

\* with document.refactor(output_path, backup): up to the yield
refactor_enter(c) ==
    /\ status = "open"
    /\ pc # "body"
    /\ edits < MaxEdits
    /\ edits' = edits + 1
    /\ call' = c
    /\ fs_events' = <<>>
    /\ touched' = FALSE
    /\ entry' = [lines |-> lines, disk |-> disk]
    /\ IF path = "None"
       THEN pc' = "error" /\ UNCHANGED saved_version
       ELSE pc' = "body" /\ saved_version' = content_version
    /\ UNCHANGED <<MAX_LINE_LENGTH, doc_vars, path, disk, codec_vars, parse_vars>>

\* the body ends normally: the code after the yield
refactor_exit ==
    /\ pc = "body"
    /\ LET r == refactor_after_yield(lines, call, saved_version, content_version, path, disk)
       IN  /\ pc' = (IF r.error THEN "error" ELSE "done")
           /\ disk' = r.disk
           /\ fs_events' = r.fs_events
    /\ UNCHANGED <<MAX_LINE_LENGTH, doc_vars, saved_version, call, path, entry, touched,
                   edits, codec_vars, parse_vars>>

\* the body ends normally and the final write raises OSError (permission
\* denied at open, disk full after some of the lines)
refactor_exit_write_fails(failed_at) ==
    /\ pc = "body"
    /\ path = "Path"
    /\ refactor_output_path(call, saved_version, content_version) # "None"
    /\ LET r == refactor_write_fails(lines, call, saved_version, content_version, path, disk,
                                     failed_at)
       IN  /\ pc' = "error"
           /\ disk' = r.disk
           /\ fs_events' = r.fs_events
    /\ UNCHANGED <<MAX_LINE_LENGTH, doc_vars, saved_version, call, path, entry, touched,
                   edits, codec_vars, parse_vars>>

\* the body raises
refactor_raise ==
    /\ pc = "body"
    /\ LET r == refactor_on_raise(lines, call, saved_version, content_version, path, disk)
       IN  /\ pc' = "raised"
           /\ disk' = r.disk
           /\ fs_events' = r.fs_events
    /\ UNCHANGED <<MAX_LINE_LENGTH, doc_vars, saved_version, call, path, entry, touched,
                   edits, codec_vars, parse_vars>>

\* the document's file is removed by someone else after it was read
Unlink ==
    /\ pc = "idle"
    /\ disk.own.exists
    /\ disk' = [disk EXCEPT !.own = NoFile]
    /\ UNCHANGED <<MAX_LINE_LENGTH, doc_vars, pc, saved_version, call, path, fs_events, entry,
                   touched, edits, codec_vars, parse_vars>>

\* the sets and deletes of a document are the bodies of its scoped edits; the
\* final write fails in open, or after no line, one line or every line
NextRefactor ==
    \/ \E spyce \in Spyces : pc = "body" /\ Set(spyce)
    \/ \E name \in Names : pc = "body" /\ Delete(name)
    \/ \E c \in Calls : refactor_enter(c)
    \/ refactor_exit
    \/ \E failed_at \in {None} \cup {Some(k) : k \in {0, Min(1, Len(lines)), Len(lines)}} :
           refactor_exit_write_fails(failed_at)
    \/ refactor_raise
    \/ Unlink

SpecRefactor == InitRefactor /\ [][NextRefactor]_vars

(***************************************************************************)
(* Properties of the scoped edit.                                          *)
(***************************************************************************)
Wrote(target) == \E i \in 1..Len(fs_events) : fs_events[i] = <<"write", target>>

\* C8: a scoped edit without output_path whose body calls no set and no
\* delete does no file system operation: the disk is as it was at entry.
C8_NoOpEditWritesNothing ==
    [][(pc = "body" /\ pc' # "body" /\ call.output_path = "None" /\ ~touched)
          => (disk' = entry.disk /\ fs_events' = <<>>)]_vars

\* a scoped edit of a document with a path on disk has ended normally, without
\* output_path and without a set or delete in its body
C8_Witness ==
    /\ pc = "done"
    /\ path = "Path"
    /\ call.output_path = "None"
    /\ ~touched
    /\ disk.own.exists

C10_BodyRaiseWritesNothing ==
    [][(pc = "body" /\ pc' = "raised")
          => /\ disk' = entry.disk
             /\ fs_events' = <<>>
             /\ <<lines, spyce_jars, section, content_version>>'
                    = <<lines, spyce_jars, section, content_version>>]_vars

\* the body of a scoped edit has raised after it changed the buffer
C10_Witness ==
    /\ pc = "raised"
    /\ touched
    /\ lines # entry.lines
    /\ disk.own.exists
    /\ disk.own.content # lines

\* C11: when a scoped edit has written the document's own file, a backup was
\* requested and the file existed, a copy of the file to the backup path
\* precedes the write.
C11_BackupPrecedesWrite ==
    (pc = "done" /\ call.backup /\ Wrote("own") /\ entry.disk.own.exists)
        => \E i, j \in 1..Len(fs_events) :
               /\ i < j
               /\ fs_events[i] = <<"copy", "backup">>
               /\ fs_events[j] = <<"write", "own">>

\* C12: when the final write of a scoped edit has failed, the target file
\* holds either its complete content of before the edit or the complete
\* buffer.
C12_FailedWriteLeavesNoPartialFile ==
    \A target \in {"own", "other"} :
        (pc = "error" /\ fs_events = <<(<<"write_failed", target>>)>>)
            => \/ disk[target] = entry.disk[target]
               \/ disk[target] = File(lines)

\* C13: a scoped edit with an explicit output_path that has completed
\* normally has written the whole buffer to that path, also when its body
\* called no set and no delete, and has not written the document's own file
\* unless output_path names it.
C13_ExplicitOutputPathIsWritten ==
    (pc = "done" /\ call.output_path # "None")
        => /\ Wrote(call.output_path)
           /\ disk[call.output_path] = File(lines)
           /\ call.output_path = "other"
                  => (~Wrote("own") /\ disk.own = entry.disk.own)

\* a scoped edit with an output_path other than the own path has completed
\* with no set and no delete in its body
C13_Witness ==
    /\ pc = "done"
    /\ call.output_path = "other"
    /\ ~touched
    /\ lines # <<>>
    /\ disk.other = File(lines)
    /\ disk.own.exists

(***************************************************************************)
(* SpycyFile.__init__ line by line: the loop of _parse_lines runs on       *)
(* self.lines and fills self.spyce_jars and self.section as it goes; the   *)
(* document exists only when the loop and the final store have ended       *)
(* without exception.                                                      *)
(***************************************************************************)
MaxParseLen == 4

\* a start marker without the ':type' suffix
StartLineNoType(sec, name) == <<"# spyce:", " ", "start", " ", sec, "/", name, NL>>
\* a data line whose payload is not base85
BadDataLine == <<"#", "|", "\"", NL>>

\* the lines of the files that are parsed
ParseAlphabet == {
    StartLine(build_fq_name("source", "api", "text")),
    StartLineNoType("source", "license"),
    StartLine(build_fq_name("data", "readme", "bytes")),
    StartLine(build_fq_name("data", "api", "bytes")),
    EndLine(build_fq_name("source", "api", "text")),
    EndLine(build_fq_name("data", "readme", "bytes")),
    ConfLine("flavor", "api"),
    CodeLine,
    BadDataLine }

ParseFiles == BoundedSeq(ParseAlphabet, MaxParseLen)

\* the state of the loop of _parse_lines
ParseState == [spyce_jars |-> spyce_jars, section |-> section, spyce_jar |-> parse_jar,
               error |-> None]

InitParse ==
    /\ MAX_LINE_LENGTH = DefaultMaxLineLength
    /\ \E ls \in ParseFiles :
           /\ lines = ls
           /\ opened = [lines |-> ls, code_lines |-> <<>>]
           /\ disk = [own |-> File(ls), other |-> NoFile]
    /\ status = "parsing"
    /\ spyce_jars = <<>>
    /\ section = [sec \in Sections |-> None]
    /\ content_version = 0
    /\ last_set = [n \in Names |-> None]
    /\ parse_pos = 0 /\ parse_jar = None /\ query = None
    /\ path = "Path"
    /\ pc = "idle" /\ saved_version = 0 /\ call = NoCall /\ fs_events = <<>>
    /\ entry = [lines |-> <<>>, disk |-> disk] /\ touched = FALSE /\ edits = 0
    /\ CodecIdle

\* one iteration of the loop of _parse_lines; an exception leaves the loop at
\* the line that raised it
ParseLine ==
    /\ status = "parsing"
    /\ parse_pos < Len(lines)
    /\ LET st == parse_line(ParseState, parse_pos, lines[parse_pos + 1])
       IN  /\ spyce_jars' = st.spyce_jars
           /\ section' = st.section
           /\ parse_jar' = st.spyce_jar
           /\ status' = (IF st.error = None THEN "parsing" ELSE st.error[1])
           /\ parse_pos' = (IF st.error = None THEN parse_pos + 1 ELSE parse_pos)
    /\ UNCHANGED <<MAX_LINE_LENGTH, lines, content_version, opened, last_set, edit_vars,
                   codec_vars, query>>

\* the end of _parse_lines and of __init__: the jar still open is stored
ParseEnd ==
    /\ status = "parsing"
    /\ parse_pos = Len(lines)
    /\ LET st == store_spyce_jar(ParseState, None)
       IN  /\ spyce_jars' = st.spyce_jars
           /\ section' = st.section
           /\ parse_jar' = st.spyce_jar
           /\ opened' = [opened EXCEPT !.code_lines =
                             code_lines([lines |-> lines, spyce_jars |-> st.spyce_jars])]
    /\ status' = "open"
    /\ content_version' = 0
    /\ UNCHANGED <<MAX_LINE_LENGTH, lines, last_set, edit_vars, codec_vars, parse_pos, query>>

(***************************************************************************)
(* Reading an open document: Pattern, SpyceFilter, SpycyFile.filter and    *)
(* SpycyFile.__getitem__.  Patterns and the values they are matched with   *)
(* are sequences of characters.                                            *)
(***************************************************************************)
\* the characters of the strings that are matched
Chars ==
    ("api" :> <<"a", "p", "i">>) @@ ("license" :> <<"l", "i", "c", "e", "n", "s", "e">>) @@
    ("readme" :> <<"r", "e", "a", "d", "m", "e">>) @@ ("a" :> <<"a">>) @@ ("b" :> <<"b">>) @@
    ("text" :> <<"t", "e", "x", "t">>) @@ ("bytes" :> <<"b", "y", "t", "e", "s">>) @@
    ("source" :> <<"s", "o", "u", "r", "c", "e">>) @@ ("data" :> <<"d", "a", "t", "a">>)

RECURSIVE fnmatch(_, _)
\* fnmatch.fnmatch(value, pattern) for patterns made of characters, * and ?
fnmatch(value, pattern) ==
    IF pattern = <<>> THEN value = <<>>
    ELSE IF Head(pattern) = "*"
    THEN fnmatch(value, Tail(pattern)) \/ (value # <<>> /\ fnmatch(Tail(value), pattern))
    ELSE IF value = <<>> THEN FALSE
    ELSE IF Head(pattern) = "?" THEN fnmatch(Tail(value), Tail(pattern))
    ELSE Head(pattern) = Head(value) /\ fnmatch(Tail(value), Tail(pattern))

\* Pattern.build
Pattern_build(value) ==
    IF StartsWith(value, <<"~">>)
    THEN [pattern |-> Tail(value), reverse |-> TRUE]
    ELSE [pattern |-> value, reverse |-> FALSE]

\* Pattern.__call__: Some(bool), or None when fnmatch raises TypeError on a
\* value that is None
Pattern_call(p, value) ==
    IF value = None THEN None
    ELSE Some(p.reverse # fnmatch(value[1], p.pattern))

\* SpyceFilter.__init__: the list of (key, pattern) of the arguments that are
\* not empty, in the order section, name, spyce_type, flavor
SpyceFilter(sec, name, spyce_type, flavor) ==
    (IF sec # <<>> THEN <<[key |-> "section", pattern |-> Pattern_build(sec)]>> ELSE <<>>)
    \o (IF name # <<>> THEN <<[key |-> "name", pattern |-> Pattern_build(name)]>> ELSE <<>>)
    \o (IF spyce_type # <<>>
        THEN <<[key |-> "spyce_type", pattern |-> Pattern_build(spyce_type)]>> ELSE <<>>)
    \o (IF flavor # <<>> THEN <<[key |-> "flavor", pattern |-> Pattern_build(flavor)]>> ELSE <<>>)

\* attrgetter(key)(spyce) for the spyce of a jar: Some(characters), or None
\* for the flavor of a spyce whose conf has none
spyce_attr(jar, key) ==
    IF key = "section" THEN Some(Chars[jar.section])
    ELSE IF key = "name" THEN Some(Chars[jar.name])
    ELSE IF key = "spyce_type" THEN Some(Chars[jar.spyce_type])
    ELSE IF \E i \in 1..Len(jar.conf) : jar.conf[i][1] = "flavor"
    THEN Some(Chars[jar.conf[CHOOSE i \in 1..Len(jar.conf) : jar.conf[i][1] = "flavor"][2]])
    ELSE None

RECURSIVE SpyceFilter_call(_, _)
\* SpyceFilter.__call__: all() over the patterns, which stops at the first
\* false; None when a pattern raises before that
SpyceFilter_call(patterns, jar) ==
    IF patterns = <<>> THEN Some(TRUE)
    ELSE LET r == Pattern_call(Head(patterns).pattern, spyce_attr(jar, Head(patterns).key))
         IN  IF r = None THEN None
             ELSE IF ~r[1] THEN Some(FALSE)
             ELSE SpyceFilter_call(Tail(patterns), jar)

RECURSIVE apply_filters(_, _)
\* the loop of SpycyFile.filter over spyce_filters: Some(spyces), or None
\* when a filter raises
apply_filters(spyce_filters, spyces) ==
    IF spyce_filters = <<>> THEN Some(spyces)
    ELSE LET Raises(jar) == SpyceFilter_call(Head(spyce_filters), jar) = None
             Passes(jar) == SpyceFilter_call(Head(spyce_filters), jar) = Some(TRUE)
             new_spyces == Filter(spyces, Passes)
         IN  IF \E i \in 1..Len(spyces) : Raises(spyces[i]) THEN None
             ELSE IF new_spyces = <<>> THEN Some(<<>>)
             ELSE apply_filters(Tail(spyce_filters), new_spyces)

\* SpycyFile.filter: [raised, names]; list(self.values()) builds the spyce of
\* every jar, which decodes its lines
SpycyFile_filter(d, spyce_filters) ==
    LET jars == d.spyce_jars
        kept == apply_filters(spyce_filters, jars)
        IsSelected(jar) == jar.name \in JarNames(kept[1])
        chosen == Filter(jars, IsSelected)
    IN  IF \E i \in 1..Len(jars) : ~get_content(d, jars[i].name).ok
        THEN [raised |-> Some("ValueError"), names |-> <<>>]
        ELSE IF kept = None THEN [raised |-> Some("TypeError"), names |-> <<>>]
        ELSE [raised |-> None, names |-> [i \in 1..Len(chosen) |-> chosen[i].name]]

\* the lists of filters given to filter (None and [] are both the empty list)
NoPattern == <<>>
FilterLists == {
    <<>>,
    <<SpyceFilter(NoPattern, <<"~">> \o Chars["api"], NoPattern, NoPattern)>>,
    <<SpyceFilter(NoPattern, <<"?", "*", "e">>, NoPattern, NoPattern)>>,
    <<SpyceFilter(Chars["source"], <<"~">> \o Chars["api"], NoPattern, NoPattern)>>,
    <<SpyceFilter(NoPattern, <<"~">> \o Chars["api"], NoPattern, NoPattern),
      SpyceFilter(NoPattern, NoPattern, <<"~", "t", "*">>, NoPattern)>>,
    <<SpyceFilter(NoPattern, NoPattern, NoPattern, Chars["api"])>> }

\* document[name].get_content()
GetItem(name) ==
    /\ status = "open"
    /\ name \in JarNames(spyce_jars)
    /\ query' = Some([value |-> get_content(Doc, name), op |-> "getitem", arg |-> name])
    /\ UNCHANGED <<MAX_LINE_LENGTH, doc_vars, edit_vars, codec_vars, parse_pos, parse_jar>>

\* document.filter(spyce_filters)
FilterNames(spyce_filters) ==
    /\ status = "open"
    /\ query' = Some([value |-> SpycyFile_filter(Doc, spyce_filters), op |-> "filter",
                      arg |-> spyce_filters])
    /\ UNCHANGED <<MAX_LINE_LENGTH, doc_vars, edit_vars, codec_vars, parse_pos, parse_jar>>

NextParse ==
    \/ ParseLine
    \/ ParseEnd
    \/ \E name \in DOMAIN Chars : GetItem(name)
    \/ \E spyce_filters \in FilterLists : FilterNames(spyce_filters)

SpecParse == InitParse /\ [][NextParse]_vars

(***************************************************************************)
(* Properties of the parser and of the reads.                              *)
(***************************************************************************)
\* the kind of the line at index i, as the loop of _parse_lines tells them
\* apart: the section regex first, then the marker regex, then the conf regex
MarkerAt(i) == m_spyce(lines[i + 1])
IsStartAt(i) ==
    m_section(lines[i + 1]) = None /\ MarkerAt(i) # None /\ MarkerAt(i)[1].action = "start"
IsEndAt(i) ==
    m_section(lines[i + 1]) = None /\ MarkerAt(i) # None /\ MarkerAt(i)[1].action = "end"
IsConfAt(i) ==
    m_section(lines[i + 1]) = None /\ MarkerAt(i) = None /\ m_conf(lines[i + 1]) # None
LineIndices == 0..(Len(lines) - 1)

RECURSIVE ConfRunFrom(_)
\* the number of consecutive configuration lines from index i on
ConfRunFrom(i) == IF i < Len(lines) /\ IsConfAt(i) THEN 1 + ConfRunFrom(i + 1) ELSE 0

\* the pairs of start markers of the buffer that share their name
DuplicateStarts ==
    {p \in LineIndices \X LineIndices :
        /\ p[1] < p[2]
        /\ IsStartAt(p[1]) /\ IsStartAt(p[2])
        /\ MarkerAt(p[1])[1].name = MarkerAt(p[2])[1].name}

\* C14: a buffer with two start markers of the same name is never opened:
\* parsing stops at the second of them at the latest, and when it reaches it,
\* it raises SpyceError there, whatever the sections and types of the two
\* markers and whether or not the first was closed by an end marker.
C14_DuplicateNameIsAnError ==
    \A p \in DuplicateStarts :
        /\ status # "open"
        /\ parse_pos <= p[2]
        /\ (status # "parsing" /\ parse_pos = p[2]) => status = "SpyceError"

\* parsing has raised SpyceError at a start marker whose name is the name of
\* an earlier start marker of another section that no end marker had closed
C14_Witness ==
    /\ status = "SpyceError"
    /\ \E p \in DuplicateStarts :
           /\ parse_pos = p[2]
           /\ MarkerAt(p[1])[1].section # MarkerAt(p[2])[1].section
           /\ \A k \in (p[1] + 1)..(p[2] - 1) : ~IsEndAt(k)

\* C15: the step of the parser on an end marker stores the open region when
\* one is open and the marker's section and name are its own, and raises
\* SpyceError otherwise; after an exception no document is constructed.
C15_EndMarkerMustMatchOpenRegion ==
    [][/\ (status = "parsing" /\ parse_pos < Len(lines) /\ IsEndAt(parse_pos))
          => IF /\ parse_jar # None
                /\ parse_jar[1].section = MarkerAt(parse_pos)[1].section
                /\ parse_jar[1].name = MarkerAt(parse_pos)[1].name
             THEN /\ status' = "parsing"
                  /\ parse_jar' = None
                  /\ spyce_jars' = Append(spyce_jars, [parse_jar[1] EXCEPT !.end = parse_pos + 1])
             ELSE /\ status' = "SpyceError"
                  /\ spyce_jars' = spyce_jars
       /\ status \notin {"parsing", "open"} => status' = status]_vars

\* the outer end marker of start A / start B / end B / end A has raised
C15_Witness ==
    /\ status = "SpyceError"
    /\ parse_pos = 3
    /\ parse_jar = None
    /\ IsStartAt(0) /\ IsStartAt(1) /\ IsEndAt(2) /\ IsEndAt(3)
    /\ MarkerAt(1)[1].name = MarkerAt(2)[1].name
    /\ MarkerAt(0)[1].name = MarkerAt(3)[1].name
    /\ MarkerAt(0)[1].name # MarkerAt(1)[1].name

\* the start markers whose region is still open when the buffer ends
OpenAtEnd ==
    {s \in LineIndices :
        /\ IsStartAt(s)
        /\ \A k \in (s + 1)..(Len(lines) - 1) : ~IsStartAt(k) /\ ~IsEndAt(k)}

\* C16: in a document opened from a buffer that ends while a region is open,
\* that region is stored with the range of its start marker and its
\* configuration lines, and its payload is empty.
C16_OpenRegionAtEndIsEmpty ==
    status = "open" =>
        \A s \in OpenAtEnd :
            /\ MarkerAt(s)[1].name \in JarNames(spyce_jars)
            /\ LET jar == JarOf(spyce_jars, MarkerAt(s)[1].name)
               IN  /\ jar.start = s
                   /\ jar.end = s + ConfRunFrom(s + 1) + 1
                   /\ get_lines(Doc, jar, FALSE) = <<>>
                   /\ get_content(Doc, jar.name) = [ok |-> TRUE, val |-> <<>>]

\* a buffer whose last region has a configuration line and a line after it
\* and no end marker has been opened
C16_Witness ==
    /\ status = "open"
    /\ \E s \in OpenAtEnd :
           /\ ConfRunFrom(s + 1) >= 1
           /\ s + ConfRunFrom(s + 1) + 1 < Len(lines)

\* the payload of a bytes jar holds a data line with a character that is not
\* base85
Malformed(jar) ==
    /\ jar.spyce_type = "bytes"
    /\ \E i \in 1..Len(get_lines(Doc, jar, FALSE)) :
           LET line == get_lines(Doc, jar, FALSE)[i]
           IN  /\ StartsWith(line, data_prefix)
               /\ \E k \in (Len(data_prefix) + 1)..Len(line) :
                      line[k] \notin Whitespace /\ ~IsB85(line[k])

\* C17: in an open document, filter does not raise a codec error, whatever
\* regions are malformed, and reading the content of a region that is not
\* malformed succeeds.
C17_CodecErrorsAreLazy ==
    (status = "open" /\ query # None) =>
        /\ query[1].op = "filter" => query[1].value.raised # Some("ValueError")
        /\ (query[1].op = "getitem" /\ ~Malformed(JarOf(spyce_jars, query[1].arg)))
               => query[1].value.ok

\* the jar satisfies one (key, pattern) predicate: the glob matches its value,
\* or, for a pattern that was prefixed with ~, does not match it
Satisfies(jar, predicate) ==
    LET value == spyce_attr(jar, predicate.key)
    IN  predicate.pattern.reverse
            # (value # None /\ fnmatch(value[1], predicate.pattern.pattern))

\* C18: filter returns, in the order of the document, exactly the names of
\* the regions that satisfy every predicate of every filter of the list.
C18_FilterSelectsExactly ==
    (status = "open" /\ query # None /\ query[1].op = "filter") =>
        LET spyce_filters == query[1].arg
            Selected(jar) ==
                \A i \in 1..Len(spyce_filters) :
                    \A k \in 1..Len(spyce_filters[i]) : Satisfies(jar, spyce_filters[i][k])
            expected == Filter(spyce_jars, Selected)
        IN  query[1].value =
                [raised |-> None, names |-> [i \in 1..Len(expected) |-> expected[i].name]]

\* C19: the step of the parser on a start marker with a new name, met while
\* a region is open, raises nothing: it stores the open region with the range
\* of its start marker and its configuration lines, which ends at the new
\* marker at the latest, and opens the new region at the marker.
C19_StartWhileOpenStoresEmpty ==
    [][(/\ status = "parsing" /\ parse_pos < Len(lines) /\ IsStartAt(parse_pos)
        /\ parse_jar # None
        /\ MarkerAt(parse_pos)[1].name \notin JarNames(spyce_jars) \cup {parse_jar[1].name}
        /\ (MarkerAt(parse_pos)[1].type = None \/ MarkerAt(parse_pos)[1].type[1] \in Registry))
          => /\ status' = "parsing"
             /\ spyce_jars' = Append(spyce_jars,
                    [parse_jar[1] EXCEPT
                         !.end = parse_jar[1].start + ConfRunFrom(parse_jar[1].start + 1) + 1])
             /\ parse_jar[1].start + ConfRunFrom(parse_jar[1].start + 1) + 1 <= parse_pos
             /\ parse_jar' # None
             /\ parse_jar'[1].name = MarkerAt(parse_pos)[1].name
             /\ parse_jar'[1].start = parse_pos]_vars

\* a document has been opened in which a region with a configuration line and
\* a line after it was stored as empty by the start marker of the next region
C19_Witness ==
    /\ status = "open"
    /\ \E i \in 1..Len(spyce_jars) : \E s \in LineIndices :
           /\ ConfRunFrom(spyce_jars[i].start + 1) >= 1
           /\ spyce_jars[i].end = spyce_jars[i].start + ConfRunFrom(spyce_jars[i].start + 1) + 1
           /\ spyce_jars[i].end < s
           /\ IsStartAt(s)
           /\ \A k \in (spyce_jars[i].start + 1)..(s - 1) : ~IsStartAt(k) /\ ~IsEndAt(k)

\* C20: the step of the parser on a configuration line accepts it only when a
\* region is open and the line index is start + (configuration lines already
\* accepted) + 1; anywhere else it raises SpyceError.
C20_ConfLineOnlyAfterStart ==
    [][(status = "parsing" /\ parse_pos < Len(lines) /\ IsConfAt(parse_pos))
          => IF /\ parse_jar # None
                /\ parse_pos = parse_jar[1].start + parse_jar[1].num_params + 1
             THEN \/ /\ status' = "parsing"
                     /\ parse_jar'[1].num_params = parse_jar[1].num_params + 1
                  \/ status' = "SpyceError"
             ELSE status' = "SpyceError"]_vars

(***************************************************************************)
(* Where set puts the first region of a section.                           *)
(***************************************************************************)
RECURSIVE LeadingInterpreterLines(_)
\* the number of lines of the leading run of lines that start with '#!'
LeadingInterpreterLines(ls) ==
    IF ls # <<>> /\ StartsWith(Head(ls), <<"#", "!">>)
    THEN 1 + LeadingInterpreterLines(Tail(ls))
    ELSE 0

\* spyce is a name that is not a key, and no region of its section exists
FirstOfSection(spyce) ==
    /\ spyce.name \notin JarNames(spyce_jars)
    /\ \A i \in JarIndices(spyce_jars) : spyce_jars[i].section # spyce.section

\* the lines of the buffer ls at the indices start .. start + n - 1
BlockAt(ls, start, n) == PySlice(ls, start, start + n)

\* C21: when set adds a name that does not exist, no region of its section
\* exists and no section marker is recorded for it, a source region is
\* inserted right after the leading run of '#!' lines (also in an empty
\* buffer and in one made of '#!' lines only) and a data region is appended
\* at the end of the buffer.
C21_FirstRegionDefaultPlace ==
    status = "open" =>
        \A spyce \in Spyces :
            (FirstOfSection(spyce) /\ section[spyce.section] = None) =>
                LET r == setitem(Doc, spyce)
                    expected == IF spyce.section = "source"
                                THEN LeadingInterpreterLines(lines)
                                ELSE Len(lines)
                IN  /\ ~r.raised
                    /\ JarOf(r.doc.spyce_jars, spyce.name).start = expected
                    /\ BlockAt(r.doc.lines, expected, Len(spyce_lines(spyce)))
                           = spyce_lines(spyce)

\* C22: when the buffer holds a section marker line of a section and no
\* region of that section exists, set of a new region of that section puts
\* its block on the line right after a section marker line of that section,
\* wherever the marker is and whatever was set and deleted before.
C22_FirstRegionFollowsSectionMarker ==
    status = "open" =>
        \A spyce \in Spyces :
            (/\ FirstOfSection(spyce)
             /\ \E i \in 1..Len(lines) : m_section(lines[i]) = Some(spyce.section)) =>
                LET r == setitem(Doc, spyce)
                    start == JarOf(r.doc.spyce_jars, spyce.name).start
                IN  /\ ~r.raised
                    /\ start >= 1
                    /\ start <= Len(r.doc.lines)
                    /\ m_section(r.doc.lines[start]) = Some(spyce.section)
                    /\ BlockAt(r.doc.lines, start, Len(spyce_lines(spyce)))
                           = spyce_lines(spyce)

(***************************************************************************)
(* Dish (src/src/spyce/dish.py): the document model without configuration  *)
(* lines.  A Dish is [lines, spyce_jars, section, content_version] too,    *)
(* spyce_jars being Dish.spyces in the insertion order of the dict; the    *)
(* entries are keyed by section and name.                                  *)
(***************************************************************************)
\* spyce.key / spyce_class.spyce_key(section, name), the '{section}/{name}'
\* that the markers of Dish carry in front of ':{spyce_type}'
Dish_spyce_key(sec, name) == <<sec, "/", name>>

Dish_keys(spyces) ==
    {Dish_spyce_key(spyces[i].section, spyces[i].name) : i \in 1..Len(spyces)}

\* self.spyces[key]
Dish_get(spyces, key) ==
    spyces[CHOOSE i \in 1..Len(spyces) :
               Dish_spyce_key(spyces[i].section, spyces[i].name) = key]

\* Dish._parse_lines._store_spyce
Dish_store_spyce(st, line_index) ==
    IF st.spyce_jar = None THEN st
    ELSE [st EXCEPT !.spyce_jars = Append(st.spyce_jars,
                                          [st.spyce_jar[1] EXCEPT !.end = line_index + 1]),
                    !.spyce_jar = None]

\* the body of the loop of Dish._parse_lines for one line
Dish_parse_line(st, cur_index, line) ==
    LET st1 == IF m_section(line) # None
               THEN [st EXCEPT !.section[m_section(line)[1]] = Some(cur_index)]
               ELSE st
    IN  IF m_spyce(line) = None THEN st1
        ELSE LET m == m_spyce(line)[1]
             IN  IF m.action = "end"
                 THEN (IF /\ st1.spyce_jar # None
                          /\ m.section = st1.spyce_jar[1].section
                          /\ m.name = st1.spyce_jar[1].name
                       THEN Dish_store_spyce(st1, cur_index)
                       ELSE Raise(st1, "SpyceError"))
                 ELSE LET st2 == IF st1.spyce_jar # None
                                 THEN Dish_store_spyce(st1, st1.spyce_jar[1].start)
                                 ELSE st1
                          spyce == SpyceJar(m.section, m.name, m.type, cur_index, None)
                      IN  IF spyce = None THEN Raise(st2, "SpyceError")
                          ELSE IF Dish_spyce_key(m.section, m.name) \in Dish_keys(st2.spyce_jars)
                          THEN Raise(st2, "SpyceError")
                          ELSE [st2 EXCEPT !.spyce_jar = spyce]

RECURSIVE Dish_parse_from(_, _, _)
\* the loop of Dish._parse_lines from line cur_index on
Dish_parse_from(st, cur_index, ls) ==
    IF st.error # None \/ cur_index >= Len(ls) THEN st
    ELSE Dish_parse_from(Dish_parse_line(st, cur_index, ls[cur_index + 1]), cur_index + 1, ls)

\* Dish._parse_lines: [spyce_jars, section, spyce_jar, error]
Dish_parse_lines(ls) ==
    LET st0 == [spyce_jars |-> <<>>, section |-> [sec \in Sections |-> None],
                spyce_jar |-> None, error |-> None]
        st == Dish_parse_from(st0, 0, ls)
    IN  IF st.error # None \/ st.spyce_jar = None THEN st
        ELSE Dish_store_spyce(st, st.spyce_jar[1].start)

\* Dish._update_lines
Dish_update_lines(d, l_start, l_diff) ==
    [d EXCEPT
        !.spyce_jars = [i \in 1..Len(d.spyce_jars) |->
            LET spyce == d.spyce_jars[i]
            IN  IF spyce.start > l_start
                THEN [spyce EXCEPT !.start = spyce.start + l_diff, !.end = spyce.end + l_diff]
                ELSE spyce],
        !.section = [sec \in Sections |->
            IF d.section[sec] # None /\ d.section[sec][1] > l_start
            THEN Some(d.section[sec][1] + l_diff)
            ELSE d.section[sec]]]

\* Dish.__delitem__ for a key of the dish
Dish_delitem(d, key) ==
    LET spyce == Dish_get(d.spyce_jars, key)
        NotIt(other) == Dish_spyce_key(other.section, other.name) # key
        popped == [d EXCEPT !.spyce_jars = Filter(d.spyce_jars, NotIt),
                            !.lines = PyDelSlice(d.lines, spyce.start, spyce.end)]
        shifted == Dish_update_lines(popped, spyce.start, -(spyce.end - spyce.start))
    IN  [shifted EXCEPT !.content_version = shifted.content_version + 1]

\* the insertion point of a key that is not in the dish: Some(start), or None
\* when the loop over an empty buffer leaves l_index unbound
Dish_new_start(d, sec) ==
    LET InSection(spc) == spc.section = sec
        mine == Filter(d.spyce_jars, InSection)
        spc_ends == [i \in 1..Len(mine) |-> mine[i].end]
    IN  IF spc_ends # <<>> THEN Some(SeqMax(spc_ends))
        ELSE IF d.section[sec] # None /\ d.section[sec][1] # 0
        THEN Some(d.section[sec][1] + 1)
        ELSE IF sec = "source"
        THEN (IF d.lines = <<>> THEN None ELSE Some(source_start(d.lines)))
        ELSE Some(Len(d.lines))

\* the block Dish.__setitem__ writes: start marker, payload, end marker
Dish_spyce_lines(spyce) ==
    LET marker == Dish_spyce_key(spyce.section, spyce.name) \o <<":", spyce.cls>>
    IN  <<StartLine(marker)>> \o Encode(spyce) \o <<EndLine(marker)>>

\* Dish.__setitem__ of a spyce farm of a registered type: [raised, doc]
Dish_setitem(d, spyce) ==
    LET key == Dish_spyce_key(spyce.section, spyce.name)
        bumped == [d EXCEPT !.content_version = d.content_version + 1]
        replace == key \in Dish_keys(d.spyce_jars)
        d1 == IF replace THEN Dish_delitem(bumped, key) ELSE bumped
        start == IF replace THEN Some(Dish_get(d.spyce_jars, key).start)
                 ELSE Dish_new_start(d1, spyce.section)
    IN  IF start = None THEN [raised |-> TRUE, doc |-> d1]
        ELSE LET block == Dish_spyce_lines(spyce)
                 spliced == [d1 EXCEPT !.lines = PyInsert(d1.lines, start[1], block)]
                 shifted == Dish_update_lines(spliced, start[1], Len(block))
                 new == SpyceJar(spyce.section, spyce.name, Some(spyce.cls),
                                 start[1], start[1] + Len(block))[1]
             IN  [raised |-> FALSE,
                  doc |-> [shifted EXCEPT !.spyce_jars = Append(shifted.spyce_jars, new)]]

\* the lines a file that a Dish is made from consists of
DishAlphabet == {
    ShebangLine, CodeLine, SectionLine("data"),
    StartLine(build_fq_name("source", "a", "text")),
    EndLine(build_fq_name("source", "a", "text")),
    StartLine(build_fq_name("data", "b", "bytes")) }

DishFiles == BoundedSeq(DishAlphabet, MaxInitLen)

\* Dish.__init__ on a file that holds the lines ls
InitDish ==
    /\ MAX_LINE_LENGTH = DefaultMaxLineLength
    /\ \E ls \in DishFiles :
           LET st == Dish_parse_lines(ls)
               ok == st.error = None
           IN  /\ lines = ls
               /\ status = (IF ok THEN "open" ELSE st.error[1])
               /\ spyce_jars = (IF ok THEN st.spyce_jars ELSE <<>>)
               /\ section = (IF ok THEN st.section ELSE [sec \in Sections |-> None])
               /\ opened = [lines |-> ls, code_lines |-> <<>>]
               /\ disk = [own |-> File(ls), other |-> NoFile]
    /\ content_version = 0
    /\ last_set = [n \in Names |-> None]
    /\ parse_pos = Len(lines) /\ parse_jar = None /\ query = None
    /\ path = "Path"
    /\ pc = "idle" /\ saved_version = 0 /\ call = NoCall /\ fs_events = <<>>
    /\ entry = [lines |-> <<>>, disk |-> disk] /\ touched = FALSE /\ edits = 0
    /\ CodecIdle

\* dish[key] = spyce_farm
DishSet(spyce) ==
    /\ status = "open"
    /\ content_version < MaxVersion
    /\ LET r == Dish_setitem(Doc, spyce)
       IN  /\ lines' = r.doc.lines
           /\ spyce_jars' = r.doc.spyce_jars
           /\ section' = r.doc.section
           /\ content_version' = r.doc.content_version
           /\ last_set' = IF r.raised THEN last_set
                          ELSE [last_set EXCEPT ![spyce.name] = Some(spyce)]
    /\ UNCHANGED <<MAX_LINE_LENGTH, status, opened, edit_vars, codec_vars, parse_vars>>

\* del dish[key]
DishDelete(sec, name) ==
    /\ status = "open"
    /\ content_version < MaxVersion
    /\ Dish_spyce_key(sec, name) \in Dish_keys(spyce_jars)
    /\ LET d == Dish_delitem(Doc, Dish_spyce_key(sec, name))
       IN  /\ lines' = d.lines
           /\ spyce_jars' = d.spyce_jars
           /\ section' = d.section
           /\ content_version' = d.content_version
    /\ last_set' = [last_set EXCEPT ![name] = None]
    /\ UNCHANGED <<MAX_LINE_LENGTH, status, opened, edit_vars, codec_vars, parse_vars>>

NextDish ==
    \/ \E spyce \in Spyces : DishSet(spyce)
    \/ \E sec \in Sections, name \in Names : DishDelete(sec, name)

SpecDish == InitDish /\ [][NextDish]_vars

\* C23: in a Dish, inserting a block at line i shifts every other region
\* whose start is at or after i by the number of inserted lines, so that
\* after any set every region's range still begins at its own start marker.
C23_DishRegionsBeginAtTheirMarker ==
    status = "open" =>
        \A i \in JarIndices(spyce_jars) :
            /\ 0 <= spyce_jars[i].start
            /\ spyce_jars[i].start < Len(lines)
            /\ m_spyce(lines[spyce_jars[i].start + 1]) # None
            /\ m_spyce(lines[spyce_jars[i].start + 1])[1].action = "start"
            /\ m_spyce(lines[spyce_jars[i].start + 1])[1].section = spyce_jars[i].section
            /\ m_spyce(lines[spyce_jars[i].start + 1])[1].name = spyce_jars[i].name

(***************************************************************************)
(* The width of the lines of a bytes payload.                              *)
(***************************************************************************)
\* the smallest max line length that holds the sentinel and one data character
MinLineLength == Len(data_prefix) + 1

\* BytesSpyce.encode has returned lines for the current max line length
BytesEncoded == sample # None /\ sample[1].cls = "bytes"

\* C24: for every configured max line length that can hold the sentinel plus
\* one data character, every line that BytesSpyce.encode produces is, without
\* its newline, at most as long as the configured max line length.
C24_BytesLinesFitMaxLineLength ==
    (BytesEncoded /\ MAX_LINE_LENGTH >= MinLineLength) =>
        \A i \in 1..Len(encoded) : Len(encoded[i]) - 1 <= MAX_LINE_LENGTH

\* C25: when the configured max line length is too small to hold the sentinel
\* plus one data character, setting it or encoding a bytes payload with it
\* fails: no lines are ever produced under such a max line length.
C25_TooSmallMaxLineLengthFails ==
    ~(BytesEncoded /\ MAX_LINE_LENGTH < MinLineLength /\ encoded # <<>>)

(***************************************************************************)
(* The bookkeeping of the document after sets and deletes.                 *)
(***************************************************************************)
\* C26: content_version is 0 right after parsing, never decreases, and is
\* strictly greater after every successful set (insert or replace) and every
\* successful delete than before it.  Every step of the document is a set or
\* a delete, so every step has to increase it.
C26_ContentVersionGrows ==
    /\ content_version = 0
    /\ [][content_version' > content_version]_vars

\* a region was inserted, replaced and deleted, and another one is in place
C26_Witness ==
    /\ status = "open"
    /\ content_version >= 3
    /\ \E name \in Names : name \in JarNames(spyce_jars) /\ last_set[name] # None
    /\ \E name \in Names : name \notin JarNames(spyce_jars)
    /\ lines # opened.lines

\* the jars of a list as a set: the region index without the order of the dict
JarSet(jars) == {jars[i] : i \in JarIndices(jars)}

\* C27: after any sequence of successful sets and deletes, parsing the line
\* buffer from scratch succeeds and yields the region index held in memory:
\* the same names with the same section, type, range, number of configuration
\* lines and configuration.
C27_ReparseYieldsSameIndex ==
    status = "open" =>
        /\ parse_lines(lines).error = None
        /\ JarSet(parse_lines(lines).spyce_jars) = JarSet(spyce_jars)

\* C28: after any sequence of sets and deletes, each recorded section anchor
\* is the index of the buffer line that holds the section marker of that
\* section.
C28_AnchorsPointAtTheirMarker ==
    status = "open" =>
        \A sec \in Sections :
            section[sec] # None =>
                /\ 0 <= section[sec][1]
                /\ section[sec][1] < Len(lines)
                /\ m_section(lines[section[sec][1] + 1]) = Some(sec)

\* C29: if set raises, the line buffer, the region map and content_version are
\* the same as before the call.
C29_RaisingSetChangesNothing ==
    status = "open" =>
        \A spyce \in Spyces :
            setitem(Doc, spyce).raised => setitem(Doc, spyce).doc = Doc

\* SpycyFile.__iter__: the names in the order of the dict
SpycyFile_iter(d) == [i \in JarIndices(d.spyce_jars) |-> d.spyce_jars[i].name]

\* C30: after any sequence of sets and deletes, iterating the document yields
\* the region names in increasing order of their start line in the buffer.
C30_IterationFollowsStartLines ==
    status = "open" =>
        LET names == SpycyFile_iter(Doc)
        IN  \A i, j \in 1..Len(names) :
                i < j => JarOf(spyce_jars, names[i]).start < JarOf(spyce_jars, names[j]).start

====
